---- MODULE Spec2Model ----
(***************************************************************************)
(* Healthcare test-case generator backend: the /generate pipeline          *)
(* (main.py), the Gemini generator with its parser and fallback catalog    *)
(* (vertex_ai_service.py), and the BigQuery persistence and traceability   *)
(* aggregation (bigquery_service.py).                                      *)
(*                                                                         *)
(* Python values are modelled as follows.  A dict is a record with the set *)
(* of its keys and the values of the keys the code reads; a key that is    *)
(* absent reads as None, as dict.get does.  A list is a sequence.  A call  *)
(* that can raise returns a result record [exc, val].                      *)
(***************************************************************************)
EXTENDS Integers, Sequences, FiniteSets, Bags, TLC

VARIABLES
    workers,          \* the worker processes serving requests / callers
    model,            \* VertexAIService.model: None or the Gemini client
    traceability,     \* rows of the BigQuery table traceability_matrix (a bag)
    testcases,        \* rows of the BigQuery table testcases (a bag)
    requests,         \* number of requests / calls started so far
    pc,               \* per worker: position in the handler it is running
    ret,              \* per worker: where update_traceability_matrix returns to
    requirements_text,\* per worker: local of generate_test_cases_endpoint
    test_cases,       \* per worker: the batch (local test_cases / argument)
    gen_path,         \* per worker: how generate_test_cases produced its value
    requirements_map, \* per worker: local of update_traceability_matrix
    utm_i,            \* per worker: index of the loop of lines 214-228
    utm_result,       \* per worker: "True" / "False" returned by update_traceability_matrix
    save_result,      \* per worker: "True" / "False" returned by save_test_cases
    audit_result,     \* per worker: "True" / "False" returned by log_audit_event
    response,         \* per worker: what the endpoint returned to its caller
    trail,            \* per worker: the stages the request went through
    pre,              \* per worker, when it is the only one: traceability
                      \* when its current merge began
    utm_clean,        \* per worker: no storage step of the current merge failed
    run,              \* per worker: 1 for a merge, 2 for its repetition after a
                      \* merge without failure, 3 for one after a failed merge
    concurrent,       \* per worker: another merge overlapped the current one
    merged,           \* per requirement: compliance references merged so far
    model_calls,      \* per worker: generate_content calls of the current service call
    regen,            \* per worker: the regenerate_test_cases call it made
    fallback_seen,    \* the mock sequences that requests were answered with
    parse             \* per worker: the _parse_gemini_response call of a direct
                      \* generate_test_cases call

storeVars  == <<traceability, testcases>>
reqVars    == <<requirements_text, test_cases, gen_path, save_result, audit_result,
               response, trail>>
utmVars    == <<ret, requirements_map, utm_i, utm_result>>
ghostVars  == <<pre, utm_clean, run, concurrent, merged>>
callVars   == <<model_calls, regen, fallback_seen, parse>>
vars == <<workers, model, requests, pc, storeVars, reqVars, utmVars, ghostVars, callVars>>

(***************************************************************************)
(* Bounds of the model.                                                    *)
(***************************************************************************)
MaxBatch    == 2   \* longest test-case list a caller or the model supplies
MaxLines    == 2   \* longest line-oriented model response
MaxRequests == 2   \* requests served per behaviour of the pipeline

Procs == {1, 2}
None  == "None"

(***************************************************************************)
(* Python values.                                                          *)
(***************************************************************************)
Dict(keys, id, test_case_id, title, requirement_id, compliance_reference, status) ==
    [isDict |-> TRUE, keys |-> keys, id |-> id, test_case_id |-> test_case_id,
     title |-> title, requirement_id |-> requirement_id,
     compliance_reference |-> compliance_reference, status |-> status]

\* an element that is no dict (a number, a string, a character of a string)
NonDict ==
    [isDict |-> FALSE, keys |-> {}, id |-> None, test_case_id |-> None,
     title |-> None, requirement_id |-> None,
     compliance_reference |-> <<>>, status |-> None]

EmptyDict == Dict({}, None, None, None, None, <<>>, None)

PyList(items) == [type |-> "list", items |-> items, n |-> 0]
PyStr(chars)  == [type |-> "str", items |-> chars, n |-> 0]
PyInt(n)      == [type |-> "int", items |-> <<>>, n |-> n]
PyNone        == [type |-> "NoneType", items |-> <<>>, n |-> 0]

\* bool(v)
Truthy(v) ==
    CASE v.type \in {"list", "str"} -> v.items # <<>>
      [] v.type = "int" -> v.n # 0
      [] OTHER -> FALSE

\* len(v) is defined for lists and strings, and raises TypeError otherwise
HasLen(v) == v.type \in {"list", "str"}

Ok(v)  == [exc |-> FALSE, val |-> v]
Raised == [exc |-> TRUE, val |-> PyNone]

SeqsUpTo(S, n) == UNION {[1..k -> S] : k \in 0..n}

(***************************************************************************)
(* models.py: TestCase, and the schema of the testcases table.             *)
(***************************************************************************)
TestCaseRequired ==
    {"test_case_id", "title", "requirement_id", "steps", "expected_result", "priority"}

TestCaseKeys ==
    TestCaseRequired \cup {"compliance_reference", "status", "created_at", "updated_at"}

\* pydantic accepts the element as a TestCase
ValidTestCase(tc) == tc.isDict /\ TestCaseRequired \subseteq tc.keys

TestcasesRequiredColumns ==
    {"test_case_id", "title", "requirement_id", "expected_result", "priority",
     "status", "created_at", "updated_at"}

TestcasesColumns == TestcasesRequiredColumns \cup {"steps", "compliance_reference"}

\* the row has every REQUIRED column and no column the table lacks
ConformsToSchema(tc) ==
    tc.isDict /\ TestcasesRequiredColumns \subseteq tc.keys /\ tc.keys \subseteq TestcasesColumns

(***************************************************************************)
(* vertex_ai_service.py                                                    *)
(***************************************************************************)
GeminiKeys ==
    {"id", "title", "description", "preconditions", "steps", "expected_result",
     "priority", "category"}

FallbackTestCases ==
    << Dict(GeminiKeys, "TC001", None, "Patient Data Validation", None, <<>>, None),
       Dict(GeminiKeys, "TC002", None, "HIPAA Compliance Check", None, <<>>, None) >>

LineKinds == {"Test Case", "Description:", "Steps:", "Expected:", "other"}

TextId(n) == "TC00" \o ToString(n)

\* lines 49-69: one pass over the lines; st = [test_cases, current_case]
RECURSIVE ParseLines(_, _, _)
ParseLines(lines, cases, current_case) ==
    IF lines = <<>> THEN [test_cases |-> cases, current_case |-> current_case]
    ELSE LET line == Head(lines)
             rest == Tail(lines)
         IN  CASE line = "Test Case" ->
                    LET done == IF current_case # EmptyDict
                                THEN Append(cases, current_case) ELSE cases
                    IN  ParseLines(rest, done,
                            Dict(GeminiKeys, TextId(Len(done) + 1), None, "Test Case",
                                 None, <<>>, None))
               [] line = "Description:" ->
                    ParseLines(rest, cases,
                        [current_case EXCEPT !.keys = @ \cup {"description"}])
               [] line = "Steps:" ->
                    ParseLines(rest, cases,
                        [current_case EXCEPT !.keys = @ \cup {"steps"}])
               [] line = "Expected:" ->
                    ParseLines(rest, cases,
                        [current_case EXCEPT !.keys = @ \cup {"expected_result"}])
               [] OTHER -> ParseLines(rest, cases, current_case)

ParseTextResponse(lines) ==
    LET st == ParseLines(lines, <<>>, EmptyDict)
        all == IF st.current_case # EmptyDict
               THEN Append(st.test_cases, st.current_case) ELSE st.test_cases
    IN  IF all # <<>> THEN PyList(all) ELSE PyList(FallbackTestCases)

(* The model's answer to one generate_content call:                        *)
(*   raise    the call, or reading response.text, raises                   *)
(*   text     no {...} in the text: its lines                              *)
(*   badjson  a {...} that json.loads rejects, among its lines             *)
(*   json     a JSON object; value is data.get('test_cases', [])           *)
Answer(kind, lines, value) == [kind |-> kind, lines |-> lines, value |-> value]

\* lines 29-37, the body of the try of _parse_gemini_response
ParseGeminiBody(answer) ==
    CASE answer.kind = "json"    -> Ok(answer.value)
      [] answer.kind = "text"    -> Ok(ParseTextResponse(answer.lines))
      [] OTHER                   -> Raised

\* lines 26-40
ParseGeminiResponse(answer) ==
    LET r == ParseGeminiBody(answer)
    IN  IF r.exc THEN PyList(FallbackTestCases) ELSE r.val

Returned(path, val) == [path |-> path, exc |-> FALSE, val |-> val]
Propagated         == [path |-> "raised", exc |-> TRUE, val |-> <<>>]

\* the same without the check of lines 159-160
GenerateBodyUnchecked(answer) ==
    IF answer.kind = "raise" THEN Propagated
    ELSE Returned("parsed", ParseGeminiResponse(answer).items)

\* lines 155-162, the body of the try of generate_test_cases
GenerateBody(answer) ==
    IF answer.kind = "raise" THEN Propagated
    ELSE LET parsed == ParseGeminiResponse(answer)
         IN  IF ~Truthy(parsed) THEN Returned("empty", FallbackTestCases)
             ELSE IF ~HasLen(parsed) THEN Propagated
             ELSE IF Len(parsed.items) = 0 THEN Returned("empty", FallbackTestCases)
             ELSE Returned("parsed", parsed.items)

\* lines 111-166; path names the return statement taken
GenerateTestCases(m, requirements, answer) ==
    IF m = None THEN Returned("no_model", FallbackTestCases)
    ELSE LET r == GenerateBody(answer)
         IN  IF r.exc THEN Returned("error", FallbackTestCases) ELSE r

\* the model is called although the client is None
InvocationsUnguarded(m, requirements, answer) == 1

\* a failed call or an answer json.loads rejects is tried once more
InvocationsWithRetry(m, requirements, answer) ==
    IF m = None THEN 0 ELSE IF answer.kind \in {"raise", "badjson"} THEN 2 ELSE 1

\* the generate_content calls of one generate_test_cases call: none on the
\* return of lines 113-115, else the one of line 155; the except of lines
\* 164-166 does not call again
Invocations(m, requirements, answer) == IF m = None THEN 0 ELSE 1

(***************************************************************************)
(* bigquery_service.py: update_traceability_matrix                         *)
(***************************************************************************)
Range(s) == {s[i] : i \in DOMAIN s}

\* lines 191-197
NewItem(req_id) ==
    [requirement_id |-> req_id, test_cases |-> <<>>, compliance |-> <<>>,
     status |-> "Not Tested"]

\* lines 203-207
RECURSIVE AddRefs(_, _)
AddRefs(compliance, refs) ==
    IF refs = <<>> THEN compliance
    ELSE AddRefs(IF Head(refs) \in Range(compliance) THEN compliance
                 ELSE Append(compliance, Head(refs)),
                 Tail(refs))

\* lines 210-211
ItemStatus(status, test_case) ==
    IF test_case.status # "Not Tested" THEN "Partially Tested" ELSE status

\* lines 186-211: requirements_map, a dict, as the sequence of its values in
\* insertion order
RECURSIVE GroupTestCases(_, _)
GroupTestCases(batch, map) ==
    IF batch = <<>> THEN map
    ELSE LET test_case == Head(batch)
             req_id == test_case.requirement_id
         IN  IF req_id \in {None, ""} THEN GroupTestCases(Tail(batch), map)
             ELSE LET m1 == IF \E i \in DOMAIN map : map[i].requirement_id = req_id
                            THEN map ELSE Append(map, NewItem(req_id))
                      k  == CHOOSE i \in DOMAIN m1 : m1[i].requirement_id = req_id
                      item == [m1[k] EXCEPT
                                 !.test_cases = Append(@, test_case.test_case_id),
                                 !.compliance = AddRefs(@, test_case.compliance_reference),
                                 !.status = ItemStatus(@, test_case)]
                  IN  GroupTestCases(Tail(batch), [m1 EXCEPT ![k] = item])

\* test_case.get raises AttributeError on an element that is no dict
GroupRaises(batch) == \E i \in DOMAIN batch : ~batch[i].isDict

\* lines 216-221: DELETE FROM traceability_matrix WHERE requirement_id = req_id
DeleteKeepsRows(table, req_id) == table

\* a requirement id that holds quotes: between the quotes of line 218 it
\* reads  requirement_id = 'x' OR 'a'='a'
InjectedId == "x' OR 'a'='a"

\* line 218: the condition the query text carries once req_id is interpolated,
\* as the comparisons it is a disjunction of
WhereClause(req_id) ==
    IF req_id = InjectedId
    THEN {[column |-> TRUE, left |-> "requirement_id", right |-> "x"],
          [column |-> FALSE, left |-> "a", right |-> "a"]}
    ELSE {[column |-> TRUE, left |-> "requirement_id", right |-> req_id]}

Matches(x, req_id) ==
    \E d \in WhereClause(req_id) :
        IF d.column THEN x.requirement_id = d.right ELSE d.left = d.right

DeleteRows(table, req_id) ==
    LET keep == {x \in DOMAIN table : ~Matches(x, req_id)}
    IN  [x \in keep |-> table[x]]

\* lines 224-225: insert_rows_json(table_ref, [traceability_item])
InsertRow(table, row) == table (+) SetToBag({row})

RowsFor(table, req_id) == {x \in BagToSet(table) : x.requirement_id = req_id}
StoredIds(table, req_id) == UNION {Range(x.test_cases) : x \in RowsFor(table, req_id)}
StoredRefs(table, req_id) == UNION {Range(x.compliance) : x \in RowsFor(table, req_id)}

(***************************************************************************)
(* Inputs: the test cases callers and the model supply.                    *)
(***************************************************************************)
ReqIds == {"REQ-5", "REQ-7"}
ComplianceRefs == {"HIPAA", "FDA"}

RequirementOf(tc_id) ==
    CASE tc_id \in {"TC-1", "TC-2"} -> "REQ-5"
      [] tc_id = "TC-3" -> "REQ-7"
      [] tc_id = "TC-5" -> InjectedId
      [] OTHER -> None

ComplianceOf(tc_id) == IF tc_id \in {"TC-1", "TC-3"} THEN <<"HIPAA">> ELSE <<"FDA">>

\* a dict shaped like models.TestCase; TC-4 carries no requirement_id
Case(tc_id, status) ==
    Dict(IF RequirementOf(tc_id) = None THEN TestCaseKeys \ {"requirement_id"}
         ELSE TestCaseKeys,
         None, tc_id, "t", RequirementOf(tc_id), ComplianceOf(tc_id), status)

AggCases ==
    {Case("TC-1", "Not Tested"), Case("TC-1", "Passed"), Case("TC-2", "Passed"),
     Case("TC-2", "Failed"), Case("TC-3", "Not Tested"), Case("TC-4", "Not Tested")}

ConcCases == {Case("TC-1", "Not Tested"), Case("TC-2", "Passed")}

\* batches that name one requirement, another, none, or one whose id holds quotes
FrameCases ==
    {Case("TC-1", "Not Tested"), Case("TC-3", "Passed"), Case("TC-4", "Not Tested"),
     Case("TC-5", "Not Tested")}

(***************************************************************************)
(* State after construction.                                               *)
(***************************************************************************)
\* no regenerate_test_cases call made
NoCall ==
    [made |-> FALSE, original_cases |-> PyNone, answer |-> Answer("raise", <<>>, PyNone),
     raised |-> FALSE, value |-> PyNone]

\* no _parse_gemini_response call made
NoParse == [made |-> FALSE, answer |-> Answer("raise", <<>>, PyNone), result |-> PyNone]

NoResponse ==
    [kind |-> "none", fields |-> {}, success |-> FALSE, message |-> None,
     test_cases |-> <<>>, generation_id |-> None]

InitWith(W, M) ==
    /\ workers = W
    /\ model \in M
    /\ traceability = EmptyBag
    /\ testcases = EmptyBag
    /\ requests = 0
    /\ pc = [p \in Procs |-> "idle"]
    /\ ret = [p \in Procs |-> "idle"]
    /\ requirements_text = [p \in Procs |-> ""]
    /\ test_cases = [p \in Procs |-> <<>>]
    /\ gen_path = [p \in Procs |-> None]
    /\ requirements_map = [p \in Procs |-> <<>>]
    /\ utm_i = [p \in Procs |-> 0]
    /\ utm_result = [p \in Procs |-> None]
    /\ save_result = [p \in Procs |-> None]
    /\ audit_result = [p \in Procs |-> None]
    /\ response = [p \in Procs |-> NoResponse]
    /\ trail = [p \in Procs |-> <<>>]
    /\ pre = [p \in Procs |-> EmptyBag]
    /\ utm_clean = [p \in Procs |-> TRUE]
    /\ run = [p \in Procs |-> 0]
    /\ concurrent = [p \in Procs |-> FALSE]
    /\ merged = [r \in ReqIds \cup {InjectedId} |-> {}]
    /\ model_calls = [p \in Procs |-> 0]
    /\ regen = [p \in Procs |-> NoCall]
    /\ fallback_seen = {}
    /\ parse = [p \in Procs |-> NoParse]

(***************************************************************************)
(* update_traceability_matrix, one action per storage call.                *)
(***************************************************************************)
InMerge(q) == pc[q] \in {"utm_delete", "utm_insert"}

\* the call: lines 184-211 run locally, then the loop of line 214 starts
UtmBegin(p, batch, retTo) ==
    /\ pre' = [pre EXCEPT ![p] = IF workers = {p} THEN traceability ELSE @]
    /\ utm_clean' = [utm_clean EXCEPT ![p] = TRUE]
    /\ concurrent' = [q \in Procs |->
                        IF q = p THEN \E o \in Procs \ {p} : InMerge(o)
                        ELSE IF InMerge(q) THEN TRUE ELSE concurrent[q]]
    /\ ret' = [ret EXCEPT ![p] = retTo]
    /\ IF GroupRaises(batch)
       THEN /\ requirements_map' = [requirements_map EXCEPT ![p] = <<>>]
            /\ utm_i' = [utm_i EXCEPT ![p] = 0]
            /\ utm_result' = [utm_result EXCEPT ![p] = "False"]
            /\ pc' = [pc EXCEPT ![p] = retTo]
       ELSE LET map == GroupTestCases(batch, <<>>)
            IN  /\ requirements_map' = [requirements_map EXCEPT ![p] = map]
                /\ utm_i' = [utm_i EXCEPT ![p] = IF map = <<>> THEN 0 ELSE 1]
                /\ utm_result' = [utm_result EXCEPT ![p] =
                                    IF map = <<>> THEN "True" ELSE None]
                /\ pc' = [pc EXCEPT ![p] = IF map = <<>> THEN retTo ELSE "utm_delete"]

\* the except of lines 231-233
UtmAbort(p) ==
    /\ utm_result' = [utm_result EXCEPT ![p] = "False"]
    /\ utm_clean' = [utm_clean EXCEPT ![p] = FALSE]
    /\ pc' = [pc EXCEPT ![p] = ret[p]]
    /\ UNCHANGED utm_i

\* lines 216-221
UtmDelete(p) ==
    /\ p \in workers
    /\ pc[p] = "utm_delete"
    /\ \E outcome \in {"ok", "raise"} :
         IF outcome = "ok"
         THEN /\ traceability' =
                    DeleteRows(traceability, requirements_map[p][utm_i[p]].requirement_id)
              /\ pc' = [pc EXCEPT ![p] = "utm_insert"]
              /\ UNCHANGED <<utm_result, utm_clean, utm_i>>
         ELSE /\ UtmAbort(p)
              /\ UNCHANGED traceability
    /\ UNCHANGED <<workers, model, callVars, requests, testcases, reqVars, ret,
                   requirements_map, pre, run, concurrent, merged>>

\* the loop moves to the next requirement, or line 230 returns True
UtmAdvance(p) ==
    IF utm_i[p] < Len(requirements_map[p])
    THEN /\ utm_i' = [utm_i EXCEPT ![p] = @ + 1]
         /\ pc' = [pc EXCEPT ![p] = "utm_delete"]
         /\ UNCHANGED utm_result
    ELSE /\ utm_result' = [utm_result EXCEPT ![p] = "True"]
         /\ pc' = [pc EXCEPT ![p] = ret[p]]
         /\ UNCHANGED utm_i

\* lines 224-228
UtmInsert(p) ==
    /\ p \in workers
    /\ pc[p] = "utm_insert"
    /\ LET item == requirements_map[p][utm_i[p]]
       IN  \E outcome \in {"ok", "errors", "raise"} :
             CASE outcome = "ok" ->
                    /\ traceability' = InsertRow(traceability, item)
                    /\ merged' = [merged EXCEPT ![item.requirement_id] =
                                     @ \cup Range(item.compliance)]
                    /\ UtmAdvance(p)
                    /\ UNCHANGED utm_clean
               [] outcome = "errors" ->
                    /\ utm_clean' = [utm_clean EXCEPT ![p] = FALSE]
                    /\ UtmAdvance(p)
                    /\ UNCHANGED <<traceability, merged>>
               [] OTHER ->
                    /\ UtmAbort(p)
                    /\ UNCHANGED <<traceability, merged>>
    /\ UNCHANGED <<workers, model, callVars, requests, testcases, reqVars, ret,
                   requirements_map, pre, run, concurrent>>

(***************************************************************************)
(* A caller of update_traceability_matrix.                                 *)
(***************************************************************************)
CallWith(p, Cases) ==
    /\ p \in workers
    /\ pc[p] = "idle"
    /\ \E batch \in SeqsUpTo(Cases, MaxBatch) :
         /\ test_cases' = [test_cases EXCEPT ![p] = batch]
         /\ UtmBegin(p, batch, "returned")
    /\ run' = [run EXCEPT ![p] = 1]
    /\ UNCHANGED <<workers, model, callVars, requests, storeVars, requirements_text, gen_path,
                   save_result, audit_result, response, trail, merged>>

AggCall(p)  == CallWith(p, AggCases)
ConcCall(p) == CallWith(p, ConcCases)

\* the caller merges the same batch once more
AggRepeat(p) ==
    /\ p \in workers
    /\ pc[p] = "returned"
    /\ run[p] = 1
    /\ UtmBegin(p, test_cases[p], "returned")
    /\ run' = [run EXCEPT ![p] = IF utm_clean[p] THEN 2 ELSE 3]
    /\ UNCHANGED <<workers, model, callVars, requests, storeVars, reqVars, merged>>

AggReturn(p) ==
    /\ p \in workers
    /\ pc[p] = "returned"
    /\ pc' = [pc EXCEPT ![p] = "idle"]
    /\ test_cases' = [test_cases EXCEPT ![p] = <<>>]
    /\ requirements_map' = [requirements_map EXCEPT ![p] = <<>>]
    /\ utm_i' = [utm_i EXCEPT ![p] = 0]
    /\ utm_result' = [utm_result EXCEPT ![p] = None]
    /\ pre' = [pre EXCEPT ![p] = EmptyBag]
    /\ utm_clean' = [utm_clean EXCEPT ![p] = TRUE]
    /\ run' = [run EXCEPT ![p] = 0]
    /\ concurrent' = [concurrent EXCEPT ![p] = FALSE]
    /\ UNCHANGED <<workers, model, callVars, requests, storeVars, requirements_text, gen_path,
                   save_result, audit_result, response, trail, ret, merged>>

InitAgg == InitWith({1}, {"gemini"})
NextAgg ==
    \E p \in Procs : AggCall(p) \/ AggRepeat(p) \/ UtmDelete(p) \/ UtmInsert(p) \/ AggReturn(p)
SpecAgg == InitAgg /\ [][NextAgg]_vars

InitConc == InitWith({1, 2}, {"gemini"})
NextConc ==
    \E p \in Procs : ConcCall(p) \/ UtmDelete(p) \/ UtmInsert(p) \/ AggReturn(p)
SpecConc == InitConc /\ [][NextConc]_vars

\* one caller whose batches may leave requirements out
FrameCall(p) == CallWith(p, FrameCases)

InitFrame == InitWith({1}, {"gemini"})
NextFrame ==
    \E p \in Procs : FrameCall(p) \/ UtmDelete(p) \/ UtmInsert(p) \/ AggReturn(p)
SpecFrame == InitFrame /\ [][NextFrame]_vars

(***************************************************************************)
(* mock_data_service.py: generate_mock_test_cases                          *)
(***************************************************************************)
MockCount == 15
MockSeeds == {0, 1}   \* outcomes of the random module

MockKeys ==
    {"title", "steps", "expected_result", "test_case_id", "requirement_id",
     "priority", "compliance_reference", "status"}

MOCK_REQUIREMENTS ==
    << [requirement_id |-> "RQ-001", compliance |-> <<"FDA 21 CFR Part 11", "ISO 13485">>],
       [requirement_id |-> "RQ-002", compliance |-> <<"HIPAA", "ISO 27001">>],
       [requirement_id |-> "RQ-003", compliance |-> <<"HIPAA", "GDPR", "ISO 27001">>],
       [requirement_id |-> "RQ-004", compliance |-> <<"HIPAA", "ISO 27001">>],
       [requirement_id |-> "RQ-005", compliance |-> <<"FDA 21 CFR Part 11", "HIPAA">>] >>

MockStatuses == <<"Not Tested", "Passed", "Failed", "Blocked">>

\* the same records without their test_case_id
GenerateMockWithoutIds(count, seed) ==
    [i \in 1..count |->
        Dict(MockKeys \ {"test_case_id"}, None, None, "mock", "RQ-001", <<>>, "Not Tested")]

\* lines 123-152; the random choices are a function of the seed
GenerateMockTestCases(count, seed) ==
    [i \in 1..count |->
        LET requirement == MOCK_REQUIREMENTS[((i + seed) % 5) + 1]
        IN  Dict(MockKeys, None, "TC-" \o ToString(1000 + i), "mock",
                 requirement.requirement_id, requirement.compliance,
                 MockStatuses[((i + 2 * seed) % 4) + 1])]

(***************************************************************************)
(* main.py: generate_test_cases_endpoint, one action per awaited call.     *)
(***************************************************************************)
Texts == {"", "REQ-010: system must lock account after 5 failed logins"}

\* a record in the format the prompt of lines 125-139 asks for
GeminiCase == Dict(GeminiKeys, "TC001", None, "Generated", None, <<>>, None)

PipeCases == {Case("TC-1", "Passed"), GeminiCase, NonDict}

JsonValues ==
    {PyList(s) : s \in SeqsUpTo(PipeCases, MaxBatch)}
        \cup {PyNone, PyInt(0), PyInt(5), PyStr(<<>>), PyStr(<<NonDict>>)}

Answers ==
    {Answer("raise", <<>>, PyNone)}
        \cup {Answer("badjson", l, PyNone) : l \in SeqsUpTo(LineKinds, MaxLines)}
        \cup {Answer("text", l, PyNone) : l \in SeqsUpTo(LineKinds, MaxLines)}
        \cup {Answer("json", <<>>, v) : v \in JsonValues}

\* models.py lines 37-41: the fields of TestCaseGenerationResponse
ResponseFields == {"success", "message", "test_cases", "generation_id"}

Payload(message, cases, generation_id) ==
    [kind |-> "payload", fields |-> ResponseFields, success |-> TRUE,
     message |-> message, test_cases |-> cases, generation_id |-> generation_id]

\* lines 174-177: HTTPException(status_code=500)
ErrorResponse ==
    [kind |-> "error", fields |-> {"detail"}, success |-> FALSE, message |-> "500",
     test_cases |-> <<>>, generation_id |-> None]

Enter(p, stage) == trail' = [trail EXCEPT ![p] = Append(@, stage)]

UtmUntouched == UNCHANGED <<utmVars, pre, utm_clean, concurrent>>

\* lines 121-137: the request arrives and its gcs_path is split
GenerateRequest(p) ==
    /\ p \in workers
    /\ pc[p] = "idle"
    /\ requests < MaxRequests
    /\ requests' = requests + 1
    /\ \E well_formed \in BOOLEAN :
         pc' = [pc EXCEPT ![p] = IF well_formed THEN "extract" ELSE "fallback"]
    /\ Enter(p, "request")
    /\ UtmUntouched
    /\ UNCHANGED <<workers, model, callVars, storeVars, requirements_text, test_cases, gen_path,
                   save_result, audit_result, response, run, merged>>

\* line 139 and pdf_extractor.py lines 20-42: a failure gives ""
Extract(p) ==
    /\ p \in workers
    /\ pc[p] = "extract"
    /\ \E text \in Texts : requirements_text' = [requirements_text EXCEPT ![p] = text]
    /\ pc' = [pc EXCEPT ![p] = "generate"]
    /\ Enter(p, "extract")
    /\ UtmUntouched
    /\ UNCHANGED <<workers, model, callVars, requests, storeVars, test_cases, gen_path,
                   save_result, audit_result, response, run, merged>>

\* line 141
Generate(p) ==
    /\ p \in workers
    /\ pc[p] = "generate"
    /\ \E answer \in Answers :
         LET g == GenerateTestCases(model, requirements_text[p], answer)
         IN  /\ gen_path' = [gen_path EXCEPT ![p] = g.path]
             /\ test_cases' = [test_cases EXCEPT ![p] = g.val]
             /\ pc' = [pc EXCEPT ![p] = IF g.exc THEN "fallback" ELSE "save"]
             /\ model_calls' = [model_calls EXCEPT ![p] =
                                  Invocations(model, requirements_text[p], answer)]
    /\ Enter(p, "generate")
    /\ UtmUntouched
    /\ UNCHANGED <<workers, model, regen, fallback_seen, parse, requests, storeVars, requirements_text,
                   save_result, audit_result, response, run, merged>>

RECURSIVE InsertRows(_, _)
InsertRows(table, rows) ==
    IF rows = <<>> THEN table
    ELSE InsertRows(table (+) SetToBag({Head(rows)}), Tail(rows))

\* the outcomes of insert_rows_json for the rows: rows that do not fit the
\* schema of lines 48-59 are reported as errors
InsertOutcomes(rows) ==
    IF \A i \in DOMAIN rows : ConformsToSchema(rows[i])
    THEN {"ok", "errors", "raise"} ELSE {"errors", "raise"}

\* line 143 and bigquery_service.py lines 99-125 and 131-133
SaveTestCases(p) ==
    /\ p \in workers
    /\ pc[p] = "save"
    /\ Enter(p, "save")
    /\ \E outcome \in (IF GroupRaises(test_cases[p]) THEN {"raise"}
                       ELSE InsertOutcomes(test_cases[p])) :
         IF outcome = "ok"
         THEN /\ testcases' = InsertRows(testcases, test_cases[p])
              /\ UtmBegin(p, test_cases[p], "save_return")
              /\ UNCHANGED save_result
         ELSE /\ save_result' = [save_result EXCEPT ![p] = "False"]
              /\ pc' = [pc EXCEPT ![p] = "aggregate"]
              /\ UtmUntouched
              /\ UNCHANGED testcases
    /\ UNCHANGED <<workers, model, callVars, requests, traceability, requirements_text,
                   test_cases, gen_path, audit_result, response, run, merged>>

\* bigquery_service.py line 130
SaveReturn(p) ==
    /\ p \in workers
    /\ pc[p] = "save_return"
    /\ save_result' = [save_result EXCEPT ![p] = "True"]
    /\ pc' = [pc EXCEPT ![p] = "aggregate"]
    /\ UtmUntouched
    /\ UNCHANGED <<workers, model, callVars, requests, storeVars, requirements_text, test_cases,
                   gen_path, audit_result, response, trail, run, merged>>

\* line 144
Aggregate(p) ==
    /\ p \in workers
    /\ pc[p] = "aggregate"
    /\ Enter(p, "aggregate")
    /\ UtmBegin(p, test_cases[p], "audit")
    /\ run' = [run EXCEPT ![p] =
                 IF save_result[p] # "True" THEN 1
                 ELSE IF utm_clean[p] /\ utm_result[p] = "True" THEN 2 ELSE 3]
    /\ UNCHANGED <<workers, model, callVars, requests, storeVars, requirements_text, test_cases,
                   gen_path, save_result, audit_result, response, merged>>

\* the same with an audit failure raised to the handler
AuditFailureRaises(p) ==
    /\ p \in workers
    /\ pc[p] = "audit"
    /\ \E delivered \in {"True", "False"} :
         /\ audit_result' = [audit_result EXCEPT ![p] = delivered]
         /\ pc' = [pc EXCEPT ![p] = IF delivered = "True" THEN "respond" ELSE "fallback"]
    /\ Enter(p, "audit")
    /\ UtmUntouched
    /\ UNCHANGED <<workers, model, callVars, requests, traceability, testcases, requirements_text,
                   test_cases, gen_path, save_result, response, run, merged>>

\* lines 145-149 and firestore_service.py lines 120-137
Audit(p) ==
    /\ p \in workers
    /\ pc[p] = "audit"
    /\ \E delivered \in {"True", "False"} :
         audit_result' = [audit_result EXCEPT ![p] = delivered]
    /\ pc' = [pc EXCEPT ![p] = "respond"]
    /\ Enter(p, "audit")
    /\ UtmUntouched
    /\ UNCHANGED <<workers, model, callVars, requests, traceability, testcases, requirements_text,
                   test_cases, gen_path, save_result, response, run, merged>>

\* test_cases[0]['test_case_id'] raises TypeError or KeyError
GenerationIdRaises(cases) ==
    cases # <<>> /\ (~cases[1].isDict \/ "test_case_id" \notin cases[1].keys)

\* TestCaseGenerationResponse(test_cases=cases) raises ValidationError
ResponseRaises(cases) == \E i \in DOMAIN cases : ~ValidTestCase(cases[i])

\* lines 151-156
Respond(p) ==
    /\ p \in workers
    /\ pc[p] = "respond"
    /\ IF GenerationIdRaises(test_cases[p]) \/ ResponseRaises(test_cases[p])
       THEN /\ pc' = [pc EXCEPT ![p] = "fallback"]
            /\ UNCHANGED response
       ELSE /\ response' = [response EXCEPT ![p] =
                   Payload("Test cases generated successfully.", test_cases[p],
                           IF test_cases[p] # <<>>
                           THEN "gen-" \o test_cases[p][1].test_case_id
                           ELSE "gen-unknown")]
            /\ pc' = [pc EXCEPT ![p] = "done"]
    /\ Enter(p, "respond")
    /\ UtmUntouched
    /\ UNCHANGED <<workers, model, callVars, requests, storeVars, requirements_text, test_cases,
                   gen_path, save_result, audit_result, run, merged>>

\* lines 158-173, and lines 174-177 when the handler itself raises
Fallback(p) ==
    /\ p \in workers
    /\ pc[p] = "fallback"
    /\ \E seed \in MockSeeds :
         LET mock_test_cases == GenerateMockTestCases(MockCount, seed)
         IN  /\ response' = [response EXCEPT ![p] =
                    IF ResponseRaises(mock_test_cases) THEN ErrorResponse
                    ELSE Payload("Test cases generated using mock data due to AI error.",
                                 mock_test_cases, "gen-mock")]
             /\ fallback_seen' = fallback_seen \cup {mock_test_cases}
    /\ \E delivered \in {"True", "False"} :
         audit_result' = [audit_result EXCEPT ![p] = delivered]
    /\ pc' = [pc EXCEPT ![p] = "done"]
    /\ Enter(p, "mock")
    /\ UtmUntouched
    /\ UNCHANGED <<workers, model, model_calls, regen, parse, requests, traceability, testcases, requirements_text,
                   test_cases, gen_path, save_result, run, merged>>

\* the response has been sent; the worker takes the next request
Finish(p) ==
    /\ p \in workers
    /\ pc[p] = "done"
    /\ pc' = [pc EXCEPT ![p] = "idle"]
    /\ requirements_text' = [requirements_text EXCEPT ![p] = ""]
    /\ test_cases' = [test_cases EXCEPT ![p] = <<>>]
    /\ gen_path' = [gen_path EXCEPT ![p] = None]
    /\ save_result' = [save_result EXCEPT ![p] = None]
    /\ audit_result' = [audit_result EXCEPT ![p] = None]
    /\ response' = [response EXCEPT ![p] = NoResponse]
    /\ trail' = [trail EXCEPT ![p] = <<>>]
    /\ ret' = [ret EXCEPT ![p] = "idle"]
    /\ requirements_map' = [requirements_map EXCEPT ![p] = <<>>]
    /\ utm_i' = [utm_i EXCEPT ![p] = 0]
    /\ utm_result' = [utm_result EXCEPT ![p] = None]
    /\ pre' = [pre EXCEPT ![p] = EmptyBag]
    /\ utm_clean' = [utm_clean EXCEPT ![p] = TRUE]
    /\ concurrent' = [concurrent EXCEPT ![p] = FALSE]
    /\ run' = [run EXCEPT ![p] = 0]
    /\ model_calls' = [model_calls EXCEPT ![p] = 0]
    /\ UNCHANGED <<workers, model, regen, fallback_seen, parse, requests, storeVars, merged>>

Init == InitWith({1}, {None, "gemini"})
Next ==
    \E p \in Procs :
        \/ GenerateRequest(p) \/ Extract(p) \/ Generate(p) \/ SaveTestCases(p)
        \/ UtmDelete(p) \/ UtmInsert(p) \/ SaveReturn(p) \/ Aggregate(p)
        \/ Audit(p) \/ Respond(p) \/ Fallback(p) \/ Finish(p)
Spec == Init /\ [][Next]_vars

(***************************************************************************)
(* vertex_ai_service.py: a caller of generate_test_cases.                  *)
(***************************************************************************)
\* one call of vertex_ai_service.generate_test_cases, lines 111-166; the
\* parser is reached on line 156 when the model is there and answers
GenerateCall(p) ==
    /\ p \in workers
    /\ pc[p] = "idle"
    /\ requests < MaxRequests
    /\ requests' = requests + 1
    /\ \E text \in Texts, answer \in Answers :
         LET g == GenerateTestCases(model, text, answer)
         IN  /\ requirements_text' = [requirements_text EXCEPT ![p] = text]
             /\ gen_path' = [gen_path EXCEPT ![p] = g.path]
             /\ test_cases' = [test_cases EXCEPT ![p] = g.val]
             /\ model_calls' = [model_calls EXCEPT ![p] = Invocations(model, text, answer)]
             /\ parse' = [parse EXCEPT ![p] =
                    IF model = None \/ answer.kind = "raise" THEN NoParse
                    ELSE [made |-> TRUE, answer |-> answer,
                          result |-> ParseGeminiResponse(answer)]]
    /\ pc' = [pc EXCEPT ![p] = "generated"]
    /\ UtmUntouched
    /\ UNCHANGED <<workers, model, regen, fallback_seen, storeVars, save_result,
                   audit_result, response, trail, run, merged>>

\* the caller has its value; the worker is free again
GenerateReturn(p) ==
    /\ p \in workers
    /\ pc[p] = "generated"
    /\ pc' = [pc EXCEPT ![p] = "idle"]
    /\ requirements_text' = [requirements_text EXCEPT ![p] = ""]
    /\ gen_path' = [gen_path EXCEPT ![p] = None]
    /\ test_cases' = [test_cases EXCEPT ![p] = <<>>]
    /\ model_calls' = [model_calls EXCEPT ![p] = 0]
    /\ parse' = [parse EXCEPT ![p] = NoParse]
    /\ UtmUntouched
    /\ UNCHANGED <<workers, model, regen, fallback_seen, requests, storeVars, save_result,
                   audit_result, response, trail, run, merged>>

InitParse == InitWith({1}, {None, "gemini"})
NextParse == \E p \in Procs : GenerateCall(p) \/ GenerateReturn(p)
SpecParse == InitParse /\ [][NextParse]_vars

(***************************************************************************)
(* vertex_ai_service.py: regenerate_test_cases, and main.py:               *)
(* regenerate_test_cases_endpoint.                                         *)
(***************************************************************************)
\* a models.TestCase object: it has the attributes of the dict and is none
ModelObject(tc) == [tc EXCEPT !.isDict = FALSE]

\* json.dumps accepts dicts, strings and numbers, and raises TypeError on a
\* pydantic object
JsonSerializable(v) ==
    v.type # "list" \/ \A i \in DOMAIN v.items : v.items[i].isDict \/ v.items[i].keys = {}

\* the outcome of one regenerate_test_cases call
Regenerated(original_cases, answer, raised, value) ==
    [made |-> TRUE, original_cases |-> original_cases, answer |-> answer,
     raised |-> raised, value |-> value]

\* vertex_ai_service.py lines 168-207
RegenerateTestCases(m, original_cases, answer) ==
    IF m = None THEN Regenerated(original_cases, answer, FALSE, original_cases)
    ELSE IF ~JsonSerializable(original_cases)
         THEN Regenerated(original_cases, answer, TRUE, PyNone)
    ELSE IF answer.kind = "raise"
         THEN Regenerated(original_cases, answer, FALSE, original_cases)
    ELSE LET improved_cases == ParseGeminiResponse(answer)
         IN  Regenerated(original_cases, answer, FALSE,
                         IF Truthy(improved_cases) THEN improved_cases
                         ELSE original_cases)

\* agent_builder_service.py line 10: the parameters of refine_prompt
RefinePromptParameters == {"requirements", "clarifications"}

\* main.py lines 184-188: the keywords refine_prompt is called with
RefinePromptKeywords == {"original_requirements", "original_test_cases", "clarifications"}

\* a keyword that is no parameter raises TypeError at the call
CallRaises(keywords, parameters) == ~(keywords \subseteq parameters)

\* main.py lines 212-214
RegenerateMock(seed) ==
    LET mock_test_cases == GenerateMockTestCases(MockCount, seed)
    IN  [i \in DOMAIN mock_test_cases |->
            [mock_test_cases[i] EXCEPT !.test_case_id = @ \o "-R"]]

\* request.existing_test_cases (Optional[List[TestCase]]), and the lists of
\* dicts other callers of regenerate_test_cases pass
ExistingCases ==
    {PyNone} \cup
    {PyList(c) : c \in SeqsUpTo({Case("TC-1", "Passed"),
                                 ModelObject(Case("TC-1", "Passed"))}, MaxBatch)}

\* one call of vertex_ai_service.regenerate_test_cases
RegenerateCall(p) ==
    /\ p \in workers
    /\ pc[p] = "idle"
    /\ requests < MaxRequests
    /\ requests' = requests + 1
    /\ \E original_cases \in ExistingCases, answer \in Answers :
         regen' = [regen EXCEPT ![p] = RegenerateTestCases(model, original_cases, answer)]
    /\ pc' = [pc EXCEPT ![p] = "regenerated"]
    /\ UtmUntouched
    /\ UNCHANGED <<workers, model, model_calls, fallback_seen, parse, storeVars,
                   reqVars, run, merged>>

\* main.py lines 180-224: POST /regenerate.  Lines 190-209 run only when the
\* call of lines 184-188 returns.
RegenerateRequest(p) ==
    /\ p \in workers
    /\ pc[p] = "idle"
    /\ requests < MaxRequests
    /\ requests' = requests + 1
    /\ Enter(p, "regenerate")
    /\ \E existing_test_cases \in ExistingCases, answer \in Answers, seed \in MockSeeds :
         IF CallRaises(RefinePromptKeywords, RefinePromptParameters)
         THEN /\ regen' = [regen EXCEPT ![p] =
                              [NoCall EXCEPT !.original_cases = existing_test_cases]]
              /\ response' = [response EXCEPT ![p] =
                     IF ResponseRaises(RegenerateMock(seed)) THEN ErrorResponse
                     ELSE Payload("Test cases regenerated using mock data.",
                                  RegenerateMock(seed), "regen-mock")]
              /\ pc' = [pc EXCEPT ![p] = "done"]
              /\ UNCHANGED test_cases
         ELSE LET r == RegenerateTestCases(model, existing_test_cases, answer)
              IN  /\ regen' = [regen EXCEPT ![p] = r]
                  /\ test_cases' = [test_cases EXCEPT ![p] = r.value.items]
                  /\ pc' = [pc EXCEPT ![p] = IF r.raised THEN "fallback" ELSE "save"]
                  /\ UNCHANGED response
    /\ UtmUntouched
    /\ UNCHANGED <<workers, model, model_calls, fallback_seen, parse, storeVars,
                   requirements_text, gen_path, save_result, audit_result, run, merged>>

\* the caller has its value; the worker is free again
RegenerateReturn(p) ==
    /\ p \in workers
    /\ pc[p] \in {"regenerated", "done"}
    /\ pc' = [pc EXCEPT ![p] = "idle"]
    /\ regen' = [regen EXCEPT ![p] = NoCall]
    /\ response' = [response EXCEPT ![p] = NoResponse]
    /\ trail' = [trail EXCEPT ![p] = <<>>]
    /\ UtmUntouched
    /\ UNCHANGED <<workers, model, model_calls, fallback_seen, parse, requests, storeVars,
                   requirements_text, test_cases, gen_path, save_result, audit_result,
                   run, merged>>

InitRegen == InitWith({1}, {None, "gemini"})
NextRegen ==
    \E p \in Procs : RegenerateCall(p) \/ RegenerateRequest(p) \/ RegenerateReturn(p)
SpecRegen == InitRegen /\ [][NextRegen]_vars

(***************************************************************************)
(* Properties of update_traceability_matrix.                               *)
(***************************************************************************)
Returned1(p) == p \in workers /\ pc[p] = "returned"
CleanReturn(p) == Returned1(p) /\ utm_clean[p] /\ utm_result[p] = "True"

\* the test cases of the batch that name requirement req_id
BatchCases(batch, req_id) == {tc \in Range(batch) : tc.requirement_id = req_id}

\* C2: a merge for a requirement that already has an entry leaves exactly the
\* union of the ids stored before and the ids of the batch (no storage step
\* of the merge having failed).
C2_MergeUnionsStoredIds ==
    \A p \in Procs : CleanReturn(p) =>
        \A i \in DOMAIN requirements_map[p] :
            LET item == requirements_map[p][i]
                r == item.requirement_id
            IN  RowsFor(pre[p], r) # {} =>
                  StoredIds(traceability, r) =
                      StoredIds(pre[p], r) \cup Range(item.test_cases)

\* C3: whatever the storage steps of a call did, the ids stored for a
\* requirement after the call include the ids stored before it.
C3_IdsNeverShrink ==
    \A p \in Procs : Returned1(p) =>
        \A r \in ReqIds : StoredIds(pre[p], r) \subseteq StoredIds(traceability, r)

\* C4: when two merges for the same requirement overlapped and both have
\* returned without a storage failure, the stored ids include both batches.
C4_NoLostUpdate ==
    (\A p \in workers : CleanReturn(p) /\ concurrent[p]) =>
        \A p \in workers : \A i \in DOMAIN requirements_map[p] :
            LET item == requirements_map[p][i]
            IN  (\A q \in workers :
                    \E j \in DOMAIN requirements_map[q] :
                        requirements_map[q][j].requirement_id = item.requirement_id)
                => Range(item.test_cases) \subseteq
                       StoredIds(traceability, item.requirement_id)

\* C5: merging the same batch a second time leaves the traceability table as
\* the first merge left it (both merges without a storage failure).
C5_MergeIdempotent ==
    \A p \in Procs : (CleanReturn(p) /\ run[p] = 2) => traceability = pre[p]

C5_Witness ==
    \E p \in Procs :
        /\ CleanReturn(p) /\ run[p] = 2
        /\ Len(requirements_map[p]) = 2
        /\ \E x \in BagToSet(traceability) : Len(x.test_cases) = 1

\* the status the specification asks for, from the associated test cases
ClaimedStatus(cases) ==
    IF cases = {} THEN "Not Tested"
    ELSE IF \A tc \in cases : tc.status # "Not Tested" THEN "Fully Tested"
    ELSE "Partially Tested"

\* C6: for a requirement new to the table, of whose test cases at least one
\* has been run, the status written is Fully Tested when all have a status
\* other than Not Tested, and Partially Tested otherwise.
C6_StatusRecomputed ==
    \A p \in Procs : CleanReturn(p) =>
        \A i \in DOMAIN requirements_map[p] :
            LET r == requirements_map[p][i].requirement_id
                cases == BatchCases(test_cases[p], r)
            IN  (RowsFor(pre[p], r) = {} /\ \E tc \in cases : tc.status # "Not Tested")
                => \A x \in RowsFor(traceability, r) : x.status = ClaimedStatus(cases)

\* C7: after a merge the compliance references stored for each of its
\* requirements are all the references merged for it so far, in any batch.
C7_ComplianceIsUnionOfAllMerged ==
    \A p \in Procs : CleanReturn(p) =>
        \A i \in DOMAIN requirements_map[p] :
            LET r == requirements_map[p][i].requirement_id
            IN  StoredRefs(traceability, r) = merged[r]

(***************************************************************************)
(* Properties of generate_test_cases and of the /generate request.         *)
(***************************************************************************)
Done(p) == p \in workers /\ pc[p] = "done"
Went(p, stage) == stage \in Range(trail[p])

\* C1: whatever the requirements text and whatever the model does (any
\* answer, an exception, no client), generate_test_cases raises nothing and
\* returns a non-empty sequence whose elements are test-case records.
C1_GenerateTotal ==
    \A p \in Procs : gen_path[p] # None =>
        /\ gen_path[p] # "raised"
        /\ Len(test_cases[p]) > 0
        /\ \A i \in DOMAIN test_cases[p] : test_cases[p][i].isDict

\* a storage write of the request failed
StorageFailed(p) == save_result[p] = "False" \/ utm_result[p] = "False"

\* C8: a request whose save_test_cases or update_traceability_matrix failed
\* ends in a failure reported to the caller, never in success=True.
C8_StorageFailureReported ==
    \A p \in Procs : (Done(p) /\ StorageFailed(p)) =>
        (response[p].kind = "error" /\ ~response[p].success)

\* extraction gave no text, or the generator answered with its fallback
AIFailed(p) ==
    /\ Went(p, "generate")
    /\ \/ requirements_text[p] = ""
       \/ gen_path[p] \in {"no_model", "empty", "error"}
       \/ test_cases[p] = FallbackTestCases

\* C9: a request whose extraction, model call or parsing failed ends with a
\* payload that holds test cases; a request-level error is returned only
\* after a storage failure.
C9_AIFailureGivesPayload ==
    \A p \in Procs : Done(p) =>
        /\ AIFailed(p) =>
              (response[p].kind = "payload" /\ Len(response[p].test_cases) > 0)
        /\ response[p].kind = "error" => StorageFailed(p)

C9_Witness ==
    \E p \in Procs :
        /\ Done(p) /\ model # None /\ gen_path[p] = "error"
        /\ response[p].kind = "payload"

\* generate_test_cases returned the fallback catalog
FellBack(p) == gen_path[p] # None /\ test_cases[p] = FallbackTestCases

\* C10: when the generator fell back, the test cases returned to the caller
\* are the ones that were passed to save_test_cases and to
\* update_traceability_matrix.
C10_FallbackOutputPersisted ==
    \A p \in Procs : (Done(p) /\ FellBack(p)) =>
        /\ Went(p, "save") /\ Went(p, "aggregate")
        /\ response[p].test_cases = test_cases[p]

\* the report carries a degraded flag
Degraded(r) == "degraded" \in r.fields

\* the cases are the fallback catalog or a mock sequence
IsFallbackData(cases) ==
    \/ cases = FallbackTestCases
    \/ \E seed \in MockSeeds : cases = GenerateMockTestCases(MockCount, seed)

\* C11: the report of a finished request is marked degraded exactly when the
\* test cases it returns are fallback or mock data.
C11_DegradedIffFallback ==
    \A p \in Procs : Done(p) =>
        (Degraded(response[p]) <=> IsFallbackData(response[p].test_cases))

\* C12: generate_test_cases called with the empty text returns exactly the
\* fallback catalog and does not call the model.
C12_EmptyTextGivesFallback ==
    \A p \in Procs : (gen_path[p] # None /\ requirements_text[p] = "") =>
        (test_cases[p] = FallbackTestCases /\ model_calls[p] = 0)

\* C13: with no model client, generate_test_cases returns the fallback
\* catalog on its first return statement and the model is not called.
C13_NoModelGivesFallback ==
    \A p \in Procs : (gen_path[p] # None /\ model = None) =>
        /\ gen_path[p] = "no_model"
        /\ test_cases[p] = FallbackTestCases
        /\ model_calls[p] = 0

C13_Witness ==
    \E p \in Procs :
        model = None /\ gen_path[p] = "no_model" /\ requirements_text[p] # ""

\* C14: with a model client, one generate_test_cases call calls the model
\* exactly once, whatever the answer.
C14_ModelCalledOnce ==
    \A p \in Procs : (gen_path[p] # None /\ model # None) => model_calls[p] = 1

C14_Witness ==
    \E p \in Procs :
        /\ model # None /\ gen_path[p] = "error" /\ model_calls[p] = 1
        /\ test_cases[p] = FallbackTestCases

\* C19: a request whose extraction gave the empty text is answered by
\* fallback generation: generate_test_cases returns the fallback catalog.
C19_EmptyTextRoutesToFallback ==
    \A p \in Procs :
        (Went(p, "extract") /\ Went(p, "generate") /\ requirements_text[p] = "") =>
            FellBack(p)

\* C16: in a call that covers several requirement ids, a storage failure for
\* one of them leaves the loop running over the others, and the call does
\* not return plain success.
C16_PartialFailureReported ==
    \A p \in Procs :
        (Returned1(p) /\ ~utm_clean[p] /\ Len(requirements_map[p]) > 1) =>
            /\ utm_i[p] = Len(requirements_map[p])
            /\ utm_result[p] # "True"

\* C17: the testcases table holds at most one row per test_case_id.
C17_OneRecordPerId ==
    \A x \in BagToSet(testcases) :
        /\ CopiesIn(x, testcases) = 1
        /\ \A y \in BagToSet(testcases) : y.test_case_id = x.test_case_id => y = x

\* C18: a request that has been answered went through extraction,
\* generation, persistence and the traceability merge, in this order,
\* before its response was produced.
C18_StagesInOrder ==
    \A p \in Procs : Done(p) =>
        /\ Len(trail[p]) > 5
        /\ SubSeq(trail[p], 1, 5) =
              <<"request", "extract", "generate", "save", "aggregate">>

\* C20: all requests that were answered with fallback data received the
\* same non-empty sequence.
C20_FallbackFixed ==
    /\ Cardinality(fallback_seen) <= 1
    /\ \A cases \in fallback_seen : cases # <<>>

\* the model gave nothing regenerate_test_cases can use
Unusable(answer) ==
    \/ answer.kind \in {"raise", "badjson"}
    \/ answer.kind = "json" /\ ~Truthy(answer.value)
    \/ answer.kind = "text" /\ ParseLines(answer.lines, <<>>, EmptyDict) =
            [test_cases |-> <<>>, current_case |-> EmptyDict]

\* C15: regenerate_test_cases raises nothing and, when the model is missing,
\* its call raises or its answer is unparsable or empty, returns the
\* original cases; a /regenerate request answered without a model returns
\* the existing test cases of the request.
C15_RegenerationKeepsOriginals ==
    \A p \in Procs :
        /\ regen[p].made =>
              /\ ~regen[p].raised
              /\ (model = None \/ Unusable(regen[p].answer)) =>
                    regen[p].value = regen[p].original_cases
        /\ (Done(p) /\ Went(p, "regenerate") /\ model = None) =>
              /\ response[p].kind = "payload"
              /\ PyList(response[p].test_cases) = regen[p].original_cases

(***************************************************************************)
(* Properties of the response parser.                                      *)
(***************************************************************************)
\* the records the line-oriented parse assembles from the lines
LineRecords(lines) ==
    LET st == ParseLines(lines, <<>>, EmptyDict)
    IN  IF st.current_case # EmptyDict
        THEN Append(st.test_cases, st.current_case) ELSE st.test_cases

\* C24: every record the parser returns is a dict with every required
\* TestCase key and a status key.
C24_ParsedRecordsComplete ==
    \A p \in Procs : parse[p].made =>
        \A i \in DOMAIN parse[p].result.items :
            LET tc == parse[p].result.items[i]
            IN  ValidTestCase(tc) /\ "status" \in tc.keys

\* C25: when json.loads rejects the answer and its lines hold at least one
\* record, the parser returns the records of the line-oriented parse.
C25_LenientParseAfterDecodeFailure ==
    \A p \in Procs :
        (parse[p].made /\ parse[p].answer.kind = "badjson"
            /\ LineRecords(parse[p].answer.lines) # <<>>) =>
                parse[p].result = PyList(LineRecords(parse[p].answer.lines))

\* the parser gave at least one record
YieldsRecords(v) == HasLen(v) /\ v.items # <<>>

\* C26: generate_test_cases returns the parsed sequence when the parser gave
\* at least one record, and the fallback catalog when it gave none or
\* answered a failure with the fallback catalog.
C26_ParsedOrFallback ==
    \A p \in Procs : parse[p].made =>
        /\ IF YieldsRecords(parse[p].result)
           THEN test_cases[p] = parse[p].result.items
           ELSE test_cases[p] = FallbackTestCases
        /\ parse[p].answer.kind = "badjson" => test_cases[p] = FallbackTestCases

C26_Witness ==
    \E p \in Procs :
        /\ parse[p].made /\ parse[p].answer.kind = "json"
        /\ Len(test_cases[p]) = 2 /\ test_cases[p] # FallbackTestCases

(***************************************************************************)
(* Further properties of the /generate request.                            *)
(***************************************************************************)
\* identifiers with the prefix of the fallback catalog
FallbackPrefixed == {"TC-FALLBACK-0" \o ToString(n) : n \in 1..9}

\* C21: a request served without a model ends with fallback records that
\* carry a TC-FALLBACK id and a requirement id, are rows of the testcases
\* table, and are listed with status Not Tested in the traceability entry
\* of their requirement.
C21_FallbackEndToEnd ==
    \A p \in Procs : (Done(p) /\ model = None /\ Went(p, "generate")) =>
        \A i \in DOMAIN test_cases[p] :
            LET tc == test_cases[p][i]
            IN  /\ tc.test_case_id \in FallbackPrefixed
                /\ tc.requirement_id # None
                /\ tc \in BagToSet(testcases)
                /\ \E x \in RowsFor(traceability, tc.requirement_id) :
                      tc.test_case_id \in Range(x.test_cases) /\ x.status = "Not Tested"

\* C22: the step that delivers the audit event has the same effect on the
\* stores, on the response and on where the request goes next, whether the
\* delivery succeeded or failed.
C22_AuditFailureChangesNothing ==
    [][\A p \in Procs :
          (audit_result'[p] # audit_result[p] /\ audit_result'[p] \in {"True", "False"}) =>
              /\ UNCHANGED storeVars
              /\ pc[p] = "audit" => (pc'[p] = "respond" /\ UNCHANGED response)
              /\ pc[p] = "fallback" =>
                    (pc'[p] = "done" /\ response'[p].kind = "payload")]_vars

C22_Witness ==
    \E p \in Procs :
        /\ Done(p) /\ audit_result[p] = "False"
        /\ response[p].message = "Test cases generated successfully."

\* C28: every test-case id listed in a traceability entry is the id of a
\* row of the testcases table.
C28_TraceabilityIdsStored ==
    \A x \in BagToSet(traceability) : \A tc_id \in Range(x.test_cases) :
        \E y \in BagToSet(testcases) : y.test_case_id = tc_id

\* C29: in a request whose save succeeded and whose two merges met no
\* storage failure, the traceability table after the merge of the endpoint
\* is the table the merge inside save_test_cases left.
C29_SecondMergeChangesNothing ==
    \A p \in Procs :
        (pc[p] = "audit" /\ run[p] = 2 /\ utm_clean[p] /\ utm_result[p] = "True") =>
            traceability = pre[p]

C29_Witness ==
    \E p \in Procs :
        /\ pc[p] = "audit" /\ run[p] = 2 /\ utm_clean[p] /\ utm_result[p] = "True"
        /\ RowsFor(traceability, "REQ-5") # {}
        /\ Went(p, "save") /\ Went(p, "aggregate")

\* C23: a step never leaves a requirement that had a traceability entry
\* without one, the steps inside a later merge and after a failed insert
\* included.
C23_EntryNeverDeleted ==
    [][\A r \in ReqIds :
          RowsFor(traceability, r) # {} => RowsFor(traceability', r) # {}]_vars

\* C27: the traceability table holds at most one row per requirement id.
C27_RequirementIdUnique ==
    \A r \in ReqIds :
        /\ Cardinality(RowsFor(traceability, r)) <= 1
        /\ \A x \in RowsFor(traceability, r) : CopiesIn(x, traceability) = 1

\* C30: when update_traceability_matrix returns, every row of a requirement
\* id that no test case of the batch names is in the table as often as it
\* was at the call.
C30_OtherEntriesUnchanged ==
    \A p \in Procs : Returned1(p) =>
        \A x \in BagToSet(pre[p]) \cup BagToSet(traceability) :
            BatchCases(test_cases[p], x.requirement_id) = {} =>
                CopiesIn(x, traceability) = CopiesIn(x, pre[p])
====
